---- MODULE Spec2Model ----
(***************************************************************************)
(* A model of synth.py: the chord -> comping pattern -> voice -> mixer      *)
(* -> amplifier -> quantizer pipeline.                                      *)
(*                                                                         *)
(* Numbers.  The program computes in IEEE doubles; the model computes in    *)
(* fixed point.  Envelope levels are integers in units of 1/One             *)
(* (One = 10^8), oscillator phases in units of 10^-5 rad, oscillator and    *)
(* voice samples in units of 10^-4, the mixer clock in units of 1/441 ms    *)
(* (the period 1000/44100 ms is exactly 10 units).  Every product is        *)
(* arranged to stay inside 32-bit integers.                                 *)
(***************************************************************************)
EXTENDS Integers, Sequences, FiniteSets

(***************************************************************************)
(* Fixed-point helpers                                                      *)
(***************************************************************************)

\* The level 1.0.
One == 10^8

\* a / b rounded to the nearest integer (b > 0), halves upwards.
RoundDiv(a, b) == (2 * a + b) \div (2 * b)

\* int(x) of Python for the quotient a / b (b > 0): truncation toward zero.
TruncDiv(a, b) == IF a >= 0 THEN a \div b ELSE -((-a) \div b)

\* The sequence [i \in 1..n |-> e(i)] as an explicit tuple.
Tuple(f) == f \o << >>

\* F(e), with e evaluated once before F is applied to its value.
With(e, F(_)) == CHOOSE y \in { F(x) : x \in { e } } : TRUE

(***************************************************************************)
(* ADSREnvelope                                                             *)
(***************************************************************************)

SampleRate == 44100

\* 1.0 / RATIO with RATIO = 1 - 1/e, in level units (1.58197670...).
InvRatio == 158197671

\* compute_coefficient: 1 - exp(-1 / (time * 44100)).  `time` is given in
\* tenths of a second.  With N = time * 44100 samples, the coefficient is
\* represented by D = 2N + 1, standing for 2/D: 1 - exp(-1/N) = 2/(2N+1)
\* up to a relative error of 1/(12 N^2), far below the level resolution.
compute_coefficient(time) == 2 * ((time * SampleRate) \div 10) + 1

\* coefficient * x, rounded to the level resolution.
Scaled(coef, x) == RoundDiv(2 * x, coef)

\* ADSREnvelope.__init__.  ntrigger counts the calls of trigger_release
\* (observation only, the program keeps no such counter).
ADSREnvelope(attack, decay, sustain, release) ==
    [ attacking |-> TRUE,
      released  |-> FALSE,
      level     |-> 0,
      attack    |-> compute_coefficient(attack),
      decay     |-> compute_coefficient(decay),
      sustain   |-> sustain,
      release   |-> compute_coefficient(release),
      ntrigger  |-> 0 ]

\* ADSREnvelope.trigger_release
trigger_release(e) ==
    [e EXCEPT !.released = TRUE, !.ntrigger = @ + 1]

\* The level after the release update.
ReleaseLevel(e) == e.level + Scaled(e.release, (One - InvRatio) - e.level)

\* The level after the attack update, before the clamp.
AttackLevel(e) == e.level + Scaled(e.attack, InvRatio - e.level)

\* DecayLevel with the difference taken the wrong way round
\* (level - sustain): the level then runs away from the sustain level.
DecayLevelAwayFromSustain(e) == e.level + Scaled(e.decay, e.level - e.sustain)

\* The level after the decay/sustain update.
DecayLevel(e) == e.level + Scaled(e.decay, e.sustain - e.level)

\* ADSREnvelope.next with the test for release made after the test for
\* attack: an envelope released during Attack goes on attacking.
EnvNextAttackFirst(e) ==
    IF e.attacking
    THEN LET l == AttackLevel(e)
         IN  IF l > One
             THEN [ env   |-> [e EXCEPT !.level = One, !.attacking = FALSE],
                    stop  |-> FALSE,
                    value |-> One ]
             ELSE [ env |-> [e EXCEPT !.level = l], stop |-> FALSE, value |-> l ]
    ELSE IF e.released
         THEN LET l == ReleaseLevel(e)
              IN  [ env |-> [e EXCEPT !.level = l], stop |-> l < 0, value |-> l ]
         ELSE LET l == DecayLevel(e)
              IN  [ env |-> [e EXCEPT !.level = l], stop |-> FALSE, value |-> l ]

\* ADSREnvelope.next: the envelope afterwards, whether StopIteration was
\* raised, and the level returned otherwise.
EnvNext(e) ==
    IF e.released
    THEN LET l == ReleaseLevel(e)
         IN  [ env |-> [e EXCEPT !.level = l], stop |-> l < 0, value |-> l ]
    ELSE IF e.attacking
         THEN LET l == AttackLevel(e)
              IN  IF l > One
                  THEN [ env   |-> [e EXCEPT !.level = One, !.attacking = FALSE],
                         stop  |-> FALSE,
                         value |-> One ]
                  ELSE [ env |-> [e EXCEPT !.level = l], stop |-> FALSE, value |-> l ]
         ELSE LET l == DecayLevel(e)
              IN  [ env |-> [e EXCEPT !.level = l], stop |-> FALSE, value |-> l ]

(***************************************************************************)
(* oscillator                                                               *)
(***************************************************************************)

\* 2^(s/12) for s = 0..11, times 10^6.
Semitone == << 1000000, 1059463, 1122462, 1189207, 1259921, 1334840,
               1414214, 1498307, 1587401, 1681793, 1781797, 1887749 >>

\* 2^n for n >= 0.
RECURSIVE Pow2(_)
Pow2(n) == IF n = 0 THEN 1 ELSE 2 * Pow2(n - 1)

\* frequency = 2^((pitch - 69) / 12) * 440, in hundredths of a hertz
\* (pitches up to 92, so that the octave factor stays small).
Frequency(pitch) ==
    LET d    == pitch - 69
        oct  == d \div 12
        semi == d % 12
        base == 440 * Semitone[semi + 1]
    IN  IF oct >= 0
        THEN RoundDiv(base, 10000) * Pow2(oct)
        ELSE RoundDiv(base, 10000 * Pow2(-oct))

\* 2 pi and pi in units of 10^-3 rad, 2 pi and pi in units of 10^-5 rad.
TwoPiMilli == 6283
PiMilli == 3142
TwoPi == 628319
Pi == 314159

\* delta = 2 pi frequency / 44100, in units of 10^-5 rad.
Delta(pitch) == RoundDiv(Frequency(pitch) * TwoPiMilli, SampleRate)

\* sin(y) for 0 <= y <= pi (y in 10^-5 rad), in units of 10^-4, by
\* Bhaskara's rational approximation 4P / (5 pi^2 - P), P = 4 y (pi - y).
HalfSin(y) ==
    LET m == y \div 100
        P == 4 * m * (PiMilli - m)
    IN  (P * 100) \div ((49348022 - P) \div 400)

\* sin(x) for x >= 0.
Sin(x) ==
    LET r == x % TwoPi
    IN  IF r <= Pi THEN HalfSin(r) ELSE -HalfSin(r - Pi)

\* The oscillator generator before its first sample.
oscillator(pitch) == [ phi |-> 0, delta |-> Delta(pitch), started |-> FALSE ]

\* next(oscillator): the first request yields at phi = 0, every later one
\* first resumes after the yield (phi += delta) and yields again.
OscNext(o) ==
    LET phi == IF o.started THEN o.phi + o.delta ELSE o.phi
    IN  [ osc   |-> [o EXCEPT !.phi = phi, !.started = TRUE],
          value |-> Sin(phi) + Sin(2 * phi) ]

(***************************************************************************)
(* Voice                                                                    *)
(***************************************************************************)

\* The sustain level 0.7 of the envelope every Voice creates.
VoiceSustain == 70000000

\* Voice.__init__ with the elapsed count starting at 1.
VoiceCountingFromOne(id, note, length) ==
    [ id         |-> id,
      note       |-> note,
      length     |-> length,
      released   |-> FALSE,
      t          |-> 1,
      oscillator |-> oscillator(note),
      adsr       |-> ADSREnvelope(1, 10, VoiceSustain, 30) ]

\* Voice.__init__.  id stands for the identity of the Python object (the
\* pool removes voices by identity).
Voice(id, note, length) ==
    [ id         |-> id,
      note       |-> note,
      length     |-> length,
      released   |-> FALSE,
      t          |-> 0,
      oscillator |-> oscillator(note),
      adsr       |-> ADSREnvelope(1, 10, VoiceSustain, 30) ]

\* The release check made after the count is incremented, so that it
\* succeeds during request number `length`.
VoiceReleaseAfterIncrement(v) ==
    IF v.t + 1 >= v.length
    THEN [v EXCEPT !.released = TRUE, !.adsr = trigger_release(@)]
    ELSE v

\* The release check guarded by the voice's own released flag, so that
\* trigger_release is called once.
VoiceReleaseOnce(v) ==
    IF v.t >= v.length /\ ~v.released
    THEN [v EXCEPT !.released = TRUE, !.adsr = trigger_release(@)]
    ELSE v

\* The release check that triggers the envelope and forgets the voice's
\* own flag.
VoiceReleaseEnvelopeOnly(v) ==
    IF v.t >= v.length
    THEN [v EXCEPT !.adsr = trigger_release(@)]
    ELSE v

\* Lines 30-32 of Voice.next: the release check made before the count is
\* incremented.
VoiceRelease(v) ==
    IF v.t >= v.length
    THEN [v EXCEPT !.released = TRUE, !.adsr = trigger_release(@)]
    ELSE v

\* envelope level (1/One) times oscillator value (10^-4), in 10^-4.
SampleOf(level, osc) == TruncDiv(TruncDiv(level, 10000) * osc, 10000)

\* Voice.next ending the voice by itself as soon as it is released.
VoiceNextEndingOnRelease(v) ==
    LET v1 == VoiceRelease(v)
        v2 == [v1 EXCEPT !.t = @ + 1]
        e  == EnvNext(v2.adsr)
        o  == OscNext(v2.oscillator)
    IN  IF e.stop \/ v2.released
        THEN [ voice |-> [v2 EXCEPT !.adsr = e.env], stop |-> TRUE, sample |-> 0 ]
        ELSE [ voice  |-> [v2 EXCEPT !.adsr = e.env, !.oscillator = o.osc],
               stop   |-> FALSE,
               sample |-> SampleOf(e.value, o.value) ]

\* Voice.next: the voice afterwards, whether StopIteration came out of it,
\* and the sample returned otherwise.  next(self.adsr) is evaluated before
\* next(self.oscillator): an exhausted envelope leaves the oscillator alone.
VoiceNext(v) ==
    LET v1 == VoiceRelease(v)
        v2 == [v1 EXCEPT !.t = @ + 1]
        e  == EnvNext(v2.adsr)
        o  == OscNext(v2.oscillator)
    IN  IF e.stop
        THEN [ voice |-> [v2 EXCEPT !.adsr = e.env], stop |-> TRUE, sample |-> 0 ]
        ELSE [ voice  |-> [v2 EXCEPT !.adsr = e.env, !.oscillator = o.osc],
               stop   |-> FALSE,
               sample |-> SampleOf(e.value, o.value) ]

(***************************************************************************)
(* The event sources: chord_generator and comp_pattern_generator, or a      *)
(* plain list of (length, notes) tuples                                     *)
(***************************************************************************)

PROGRESSION == << "Cmaj7", "Dm7", "G7", "C6" >>

CHORDS ==
    [ Dm7   |-> << 38, 50, 53, 57, 60 >>,
      G7    |-> << 31, 50, 53, 55, 59 >>,
      Cmaj7 |-> << 36, 48, 52, 55, 59 >>,
      C6    |-> << 36, 48, 52, 57, 64 >> ]

\* chord[0:1]
Root(chord) == IF Len(chord) = 0 THEN << >> ELSE << chord[1] >>

\* The pattern with its last tuple on the root instead of root + 7.
PatternEventRootLast(chord, k) ==
    CASE k = 1 -> [ length |-> 600, pitches |-> chord ]
      [] k = 2 -> [ length |-> 300, pitches |-> Root(chord) ]
      [] k = 3 -> [ length |-> 300, pitches |-> chord ]
      [] k = 4 -> [ length |-> 600, pitches |-> Root(chord) ]
      [] k = 5 -> [ length |-> 300, pitches |-> chord ]
      [] k = 6 -> [ length |-> 300, pitches |-> Root(chord) ]

\* The k-th tuple (k = 1..6) comp_pattern_generator yields for a chord.
PatternEvent(chord, k) ==
    CASE k = 1 -> [ length |-> 600, pitches |-> chord ]
      [] k = 2 -> [ length |-> 300, pitches |-> Root(chord) ]
      [] k = 3 -> [ length |-> 300, pitches |-> chord ]
      [] k = 4 -> [ length |-> 600, pitches |-> Root(chord) ]
      [] k = 5 -> [ length |-> 300, pitches |-> chord ]
      [] k = 6 -> [ length |-> 300, pitches |-> << chord[1] + 7 >> ]

\* comp_pattern_generator(chord_generator(progression)) before its first
\* element.  pos: chord symbols consumed; step: tuples yielded for the
\* current chord; out: every tuple yielded so far (observation only).
PatternSource(progression) ==
    [ kind  |-> "pattern",
      items |-> progression,
      pos   |-> 0,
      chord |-> << >>,
      step  |-> 6,
      out   |-> << >> ]

\* iter(events) for a list of (length, notes) tuples.
ListSource(events) ==
    [ kind  |-> "list",
      items |-> events,
      pos   |-> 0,
      chord |-> << >>,
      step  |-> 6,
      out   |-> << >> ]

\* next(chord_generator): CHORDS[chord_symbol] of the next symbol.
ChordNext(s) ==
    IF s.pos >= Len(s.items)
    THEN [ stop |-> TRUE, chord |-> << >>, src |-> s ]
    ELSE [ stop  |-> FALSE,
           chord |-> CHORDS[s.items[s.pos + 1]],
           src   |-> [s EXCEPT !.pos = @ + 1] ]

\* next(comp_pattern_generator): resumes after the last yield; after the
\* sixth tuple of a chord it pulls the next chord.
PatternNext(s) ==
    IF s.step < 6
    THEN LET ev == PatternEvent(s.chord, s.step + 1)
         IN  [ stop |-> FALSE,
               ev   |-> ev,
               src  |-> [s EXCEPT !.step = @ + 1, !.out = Append(@, ev)] ]
    ELSE LET c == ChordNext(s)
         IN  IF c.stop
             THEN [ stop |-> TRUE, ev |-> PatternEvent(<< >>, 1), src |-> s ]
             ELSE LET ev == PatternEvent(c.chord, 1)
                  IN  [ stop |-> FALSE,
                        ev   |-> ev,
                        src  |-> [c.src EXCEPT !.chord = c.chord,
                                               !.step  = 1,
                                               !.out   = Append(@, ev)] ]

\* next() on a list iterator.
ListNext(s) ==
    IF s.pos >= Len(s.items)
    THEN [ stop |-> TRUE, ev |-> PatternEvent(<< >>, 1), src |-> s ]
    ELSE [ stop |-> FALSE,
           ev   |-> s.items[s.pos + 1],
           src  |-> [s EXCEPT !.pos = @ + 1, !.out = Append(@, s.items[s.pos + 1])] ]

\* next(iterable) of voice_generator's argument.
SrcNext(s) == IF s.kind = "pattern" THEN PatternNext(s) ELSE ListNext(s)

(***************************************************************************)
(* voice_generator                                                          *)
(***************************************************************************)

\* The generator before its first element.  length: the length of the tuple
\* it last yielded for (added to t when it resumes); created: Voice objects
\* made so far; out: the (t, lengths, notes) of every group yielded so far
\* (observation only).
voice_generator ==
    [ t       |-> 0,
      length  |-> 0,
      started |-> FALSE,
      created |-> 0,
      out     |-> << >> ]

\* [Voice(pitch, length) for pitch in pitches]
MakeVoices(vg, ev) ==
    Tuple([ i \in 1..Len(ev.pitches) |->
              Voice(vg.created + i, ev.pitches[i], ev.length) ])

\* t = length in place of t += length.
ResumeTimeAssigned(vg) == IF vg.started THEN vg.length ELSE 0

\* t when voice_generator pulls its next tuple: 0 at first (line 113), and
\* t += length on every resumption (line 117).
ResumeTime(vg) == IF vg.started THEN vg.t + vg.length ELSE 0

\* next(voice_generator): resume (t += length), pull the next tuple, create
\* its voices and yield (t, voices).
VGNext(vg, s) ==
    LET t1 == ResumeTime(vg)
        r  == SrcNext(s)
        vs == MakeVoices(vg, r.ev)
    IN  IF r.stop
        THEN [ stop |-> TRUE, time |-> 0, voices |-> << >>,
               vg   |-> [vg EXCEPT !.t = t1, !.length = 0, !.started = TRUE],
               src  |-> r.src ]
        ELSE [ stop   |-> FALSE,
               time   |-> t1,
               voices |-> vs,
               vg     |-> [ t       |-> t1,
                            length  |-> r.ev.length,
                            started |-> TRUE,
                            created |-> vg.created + Len(vs),
                            out     |-> Append(vg.out,
                                          [ time    |-> t1,
                                            lengths |-> Tuple([i \in 1..Len(vs) |-> vs[i].length]),
                                            notes   |-> Tuple([i \in 1..Len(vs) |-> vs[i].note]) ]) ],
               src    |-> r.src ]

(***************************************************************************)
(* voice_combiner, amplifier, quantizer                                     *)
(***************************************************************************)

VARIABLES
    src,              \* the iterator voice_generator pulls its tuples from
    vg,               \* voice_generator's frame
    pc,               \* voice_combiner: "new", "yielded" (suspended at its yield), "ended"
    t,                \* voice_combiner's clock, in 1/441 ms
    stopping,
    voice_pool,
    voice_time,       \* start time (ms) of the group fetched ahead, or Infinity
    voice_list,       \* the voices of the group fetched ahead
    pending_removal,  \* the voices that raised StopIteration in the last pass
    sample,           \* the mix of the last pass, in 10^-4
    output,           \* the quantizer's last element
    admitted,         \* observation: (number, start time) of the groups admitted in the last tick
    requested,        \* observation: ids of the voices asked for a sample in the last pass
    env,              \* a free-standing ADSREnvelope (driven by EnvSpec only)
    probe             \* observation of env: requests made, last result

vars == << src, vg, pc, t, stopping, voice_pool, voice_time, voice_list,
           pending_removal, sample, output, admitted, requested, env, probe >>

\* float("inf")
Infinity == -1

\* t += 1000 / 44100 in integer arithmetic: the clock stands still.
PeriodOfIntegers == 441 * (1000 \div 44100)

\* t += 1000.0 / 44100.0, in 1/441 ms.
Period == 10

\* The accumulated double t differs from the exact multiple of 1000/44100 by
\* rounding errors far smaller than one period, so it compares with an
\* integer number of milliseconds as the exact value does, except where the
\* exact value equals it (every 441st tick, at multiples of 10 ms): there
\* the accumulated sum is just below the integer for these m, and just above
\* for the others (sums of doubles, m up to 11000).
FallsShort(m) == m % 10 = 0 /\ m >= 20 /\ m <= 4140 /\ m \notin {50, 60, 70}

\* The admission test with a look-ahead of one millisecond.
ReachedAhead(clock, time) ==
    /\ time # Infinity
    /\ clock + 441 >= 441 * time

\* The admission test passing only once the clock is more than a
\* millisecond past the start time.
ReachedLate(clock, time) ==
    /\ time # Infinity
    /\ clock > 441 * time + 441

\* t >= voice_time
Reached(clock, time) ==
    /\ time # Infinity
    /\ \/ clock > 441 * time
       \/ clock = 441 * time /\ ~FallsShort(time)

\* One turn of the admission loop (lines 129-135): the group fetched ahead
\* joins the pool and r, the result of next(iterable), replaces it.
AdmitOne(m, r) ==
    [ pool     |-> m.pool \o m.list,
      time     |-> IF r.stop THEN Infinity ELSE r.time,
      list     |-> IF r.stop THEN m.list ELSE r.voices,
      stopping |-> IF r.stop THEN TRUE ELSE m.stopping,
      vg       |-> r.vg,
      src      |-> r.src,
      adm      |-> Append(m.adm, [ no |-> Len(m.vg.out), time |-> m.time ]) ]

\* The admission step with `if` in place of `while`: one group a tick.
AdmitSingle(m, clock) ==
    IF Reached(clock, m.time)
    THEN With(VGNext(m.vg, m.src), LAMBDA r : AdmitOne(m, r))
    ELSE m

\* Lines 128-135: the admission loop, on the frame
\* m = [pool, time, list, stopping, vg, src, adm].
RECURSIVE Admit(_, _)
Admit(m, clock) ==
    IF Reached(clock, m.time)
    THEN With(With(VGNext(m.vg, m.src), LAMBDA r : AdmitOne(m, r)),
              LAMBDA x : Admit(x, clock))
    ELSE m

\* The pass of a loop that removes an exhausted voice from the pool while it
\* iterates over the pool: the voice after an exhausted one is skipped.
RECURSIVE SkipAfterStop(_, _)
SkipAfterStop(pool, skip) ==
    IF Len(pool) = 0 THEN << >>
    ELSE IF skip
         THEN << [ voice |-> pool[1], stop |-> FALSE, sample |-> 0 ] >>
                 \o SkipAfterStop(Tail(pool), FALSE)
         ELSE With(VoiceNext(pool[1]),
                   LAMBDA r : << r >> \o SkipAfterStop(Tail(pool), r.stop))

PassRemovingInPlace(pool) == SkipAfterStop(pool, FALSE)

\* The pass over voices that share one envelope object: each request steps
\* the envelope the request before it left behind.
RECURSIVE ShareEnvelope(_, _, _)
ShareEnvelope(pool, adsr, first) ==
    IF Len(pool) = 0 THEN << >>
    ELSE With(VoiceNext(IF first THEN pool[1] ELSE [pool[1] EXCEPT !.adsr = adsr]),
              LAMBDA r : << r >> \o ShareEnvelope(Tail(pool), r.voice.adsr, FALSE))

PassSharingEnvelope(pool) == ShareEnvelope(pool, << >>, TRUE)

\* Lines 138-145: one sample request to every voice of the pool, in order.
Pass(pool) == Tuple([ i \in 1..Len(pool) |-> VoiceNext(pool[i]) ])

\* The mix with `sample = next(voice)` in place of `sample += next(voice)`:
\* the last sample returned.
RECURSIVE MixOfLast(_)
MixOfLast(results) ==
    IF Len(results) = 0
    THEN 0
    ELSE IF results[Len(results)].stop
         THEN MixOfLast(SubSeq(results, 1, Len(results) - 1))
         ELSE results[Len(results)].sample

\* sample: the sum of the samples returned.
RECURSIVE MixOf(_)
MixOf(results) ==
    IF Len(results) = 0
    THEN 0
    ELSE (IF results[1].stop THEN 0 ELSE results[1].sample) + MixOf(Tail(results))

\* The voices after the pass, and those that raised StopIteration.
AfterPass(results) == Tuple([ i \in 1..Len(results) |-> results[i].voice ])
Stopped(results) ==
    LET idx == SelectSeq([ i \in 1..Len(results) |-> i ], LAMBDA i : results[i].stop)
    IN  Tuple([ k \in 1..Len(idx) |-> results[idx[k]].voice ])

\* list.remove(voice): the first occurrence of the object.
RECURSIVE Remove(_, _)
Remove(pool, id) ==
    IF Len(pool) = 0 THEN pool
    ELSE IF pool[1].id = id THEN Tail(pool)
    ELSE << pool[1] >> \o Remove(Tail(pool), id)

\* The clean-up that removes the first exhausted voice only.
CleanUpFirst(pool, removal) ==
    IF Len(removal) = 0 THEN pool ELSE Remove(pool, removal[1].id)

\* Lines 148-149.
RECURSIVE CleanUp(_, _)
CleanUp(pool, removal) ==
    IF Len(removal) = 0 THEN pool
    ELSE With(Remove(pool, removal[1].id),
              LAMBDA p : With(Tail(removal), LAMBDA r : CleanUp(p, r)))

\* amplifier(0.5, ...): gain in tenths; the result is in 10^-5.
Gain == 5
amplifier(gain, s) == gain * s

\* 32767 * x \div 100000 for x >= 0, without leaving 32 bits.
Scale32767(x) ==
    LET h  == x \div 100000
        l  == x % 100000
        l1 == l \div 100
        l0 == l % 100
    IN  32767 * h + (32767 * l1 + (32767 * l0) \div 100) \div 1000

\* The quantizer saturating at the limits of a signed 16-bit integer.
quantizerSaturating(x) ==
    LET q == IF x >= 0 THEN Scale32767(x) ELSE -Scale32767(-x)
    IN  IF q > 32767 THEN 32767 ELSE IF q < -32768 THEN -32768 ELSE q

\* quantizer: int(32767.0 * sample), sample in 10^-5; int() truncates
\* toward zero.
quantizer(x) == IF x >= 0 THEN Scale32767(x) ELSE -Scale32767(-x)

\* The test for the end without the stopping flag.
EndsWhenEmpty(a, pool) == Len(pool) = 0

\* Line 152: stopping and len(voice_pool) == 0
Ends(a, pool) == a.stopping /\ Len(pool) = 0

\* Lines 147-152: the clean-up and the test for the end; a is the frame left
\* by the admission loop, pool and removal the voices after the pass and
\* those among them that raised StopIteration.
Cleaned(a, requests, pool, removal, mix) ==
    [ src       |-> a.src,
      vg        |-> a.vg,
      stopping  |-> a.stopping,
      time      |-> a.time,
      list      |-> a.list,
      adm       |-> a.adm,
      requested |-> requests,
      pool      |-> pool,
      removal   |-> removal,
      mix       |-> mix,
      ends      |-> Ends(a, pool) ]

\* Lines 137-152 on the frame a left by the admission loop.
Mixed(a) ==
    With(Pass(a.pool), LAMBDA results :
      With(Stopped(results), LAMBDA removal :
        With(CleanUp(AfterPass(results), removal), LAMBDA pool :
          Cleaned(a, Tuple([ i \in 1..Len(a.pool) |-> a.pool[i].id ]),
                  pool, removal, MixOf(results)))))

\* One iteration of the while True loop (lines 127-152) at clock value
\* `clock`, from the frame m.
Body(m, clock) == With(Admit(m, clock), LAMBDA a : Mixed(a))

\* Lines 153-155 and the stages downstream: the stream ends, or the mix is
\* yielded, amplified and quantized.
Yield(n, clock) ==
    /\ t' = clock
    /\ src' = n.src
    /\ vg' = n.vg
    /\ stopping' = n.stopping
    /\ voice_time' = n.time
    /\ voice_list' = n.list
    /\ voice_pool' = n.pool
    /\ pending_removal' = n.removal
    /\ sample' = n.mix
    /\ admitted' = n.adm
    /\ requested' = n.requested
    /\ pc' = IF n.ends THEN "ended" ELSE "yielded"
    /\ output' = IF n.ends THEN output ELSE quantizer(amplifier(Gain, n.mix))

\* voice_combiner's frame after lines 121-124, r being the first group.
FirstFrame(r) ==
    [ pool |-> << >>, time |-> r.time, list |-> r.voices, stopping |-> FALSE,
      vg |-> r.vg, src |-> r.src, adm |-> << >> ]

\* voice_combiner's frame while it is suspended at its yield.
Frame ==
    [ pool |-> voice_pool, time |-> voice_time, list |-> voice_list,
      stopping |-> stopping, vg |-> vg, src |-> src, adm |-> << >> ]

\* The first next() on the pipeline: lines 121-124, then the loop body up to
\* the first yield.  An empty source ends the generator on line 124.
First ==
    /\ pc = "new"
    /\ \E r \in { VGNext(vg, src) } :
          IF r.stop
          THEN /\ pc' = "ended"
               /\ vg' = r.vg
               /\ src' = r.src
               /\ UNCHANGED << t, stopping, voice_pool, voice_time, voice_list,
                               pending_removal, sample, output, admitted, requested >>
          ELSE \E n \in { Body(FirstFrame(r), 0) } : Yield(n, 0)
    /\ UNCHANGED << env, probe >>

\* Every later next(): resume after the yield (t += 1000.0 / 44100.0), then
\* the loop body up to the next yield or the end.
Resume ==
    /\ pc = "yielded"
    /\ \E n \in { Body(Frame, t + Period) } : Yield(n, t + Period)
    /\ UNCHANGED << env, probe >>

\* The release time of an envelope that is never released: infinitely late.
Never == Infinity

\* The free-standing envelope, created as Voice.__init__ creates it, to be
\* released after `at` requests (or never).
Envelope(at) ==
    /\ env = ADSREnvelope(1, 10, VoiceSustain, 30)
    /\ probe = [ n |-> 0, at |-> at, stop |-> FALSE, value |-> 0, after |-> 0 ]

\* The state every run of the pipeline starts in, for a given event source.
Start(source) ==
    /\ src = source
    /\ vg = voice_generator
    /\ pc = "new"
    /\ t = 0
    /\ stopping = FALSE
    /\ voice_pool = << >>
    /\ voice_time = 0
    /\ voice_list = << >>
    /\ pending_removal = << >>
    /\ sample = 0
    /\ output = 0
    /\ admitted = << >>
    /\ requested = << >>

(***************************************************************************)
(* Spec: the program, for the progressions that are a prefix of PROGRESSION *)
(***************************************************************************)

MaxProgression == 1

Init ==
    /\ \E n \in 0..MaxProgression : Start(PatternSource(SubSeq(PROGRESSION, 1, n)))
    /\ Envelope(Never)

Next == First \/ Resume

Spec == Init /\ [][Next]_vars

(***************************************************************************)
(* MixSpec: voice_combiner(voice_generator(events)) for short lists of      *)
(* (length, notes) tuples                                                   *)
(***************************************************************************)

MaxEvents == 2
MaxLength == 2

NoteLists == { << >>, << 36 >>, << 36, 43 >> }

Events == [ length : 0..MaxLength, pitches : NoteLists ]

EventLists == UNION { [ 1..n -> Events ] : n \in 0..MaxEvents }

MixInit ==
    /\ \E events \in EventLists : Start(ListSource(events))
    /\ Envelope(Never)

MixSpec == MixInit /\ [][Next]_vars

\* The consumer (list(output)) keeps asking until the stream ends.
MixFair == MixSpec /\ WF_vars(Next)

(***************************************************************************)
(* EnvSpec: one ADSREnvelope(0.1, 1.0, 0.7, 3.0), asked for levels and      *)
(* released after a chosen number of requests, or never                     *)
(***************************************************************************)

\* Requests made to an envelope that has already raised StopIteration.
MaxAfter == 2

ReleaseTimes == { 0, 1, 300, 600, 4410, 4411, 20000 }

EnvInit ==
    /\ Start(PatternSource(<< >>))
    /\ \E at \in ReleaseTimes \cup {Never} : Envelope(at)

\* adsr.trigger_release(), once `at` requests have been made.
EnvTrigger ==
    /\ probe.at = probe.n
    /\ ~env.released
    /\ env' = trigger_release(env)
    /\ UNCHANGED << probe, src, vg, pc, t, stopping, voice_pool, voice_time,
                    voice_list, pending_removal, sample, output, admitted,
                    requested >>

\* next(adsr).  The requests to a never-released envelope are not counted.
EnvRequest ==
    /\ probe.at = probe.n => env.released
    /\ probe.stop => probe.after < MaxAfter
    /\ env' = EnvNext(env).env
    /\ probe' = [ n     |-> IF probe.at = Never THEN 0 ELSE probe.n + 1,
                  at    |-> probe.at,
                  stop  |-> EnvNext(env).stop,
                  value |-> IF EnvNext(env).stop THEN probe.value ELSE EnvNext(env).value,
                  after |-> IF probe.stop THEN probe.after + 1 ELSE 0 ]
    /\ UNCHANGED << src, vg, pc, t, stopping, voice_pool, voice_time,
                    voice_list, pending_removal, sample, output, admitted,
                    requested >>

EnvStep == EnvTrigger \/ EnvRequest

EnvSpec == EnvInit /\ [][EnvStep]_vars

(***************************************************************************)
(* SeqSpec: list(voice_generator(comp_pattern_generator(chord_generator(p)))) *)
(* for every progression p of at most MaxChords chord symbols               *)
(***************************************************************************)

MaxChords == 2

Symbols == { "Cmaj7", "Dm7", "G7", "C6" }

Progressions == UNION { [ 1..n -> Symbols ] : n \in 0..MaxChords }

SeqInit ==
    /\ \E p \in Progressions : Start(PatternSource(p))
    /\ Envelope(Never)

\* next(voices), by a consumer that only collects the groups.
Pull ==
    /\ pc = "new"
    /\ vg' = VGNext(vg, src).vg
    /\ src' = VGNext(vg, src).src
    /\ IF VGNext(vg, src).stop
       THEN pc' = "ended" /\ UNCHANGED << voice_time, voice_list >>
       ELSE /\ pc' = pc
            /\ voice_time' = VGNext(vg, src).time
            /\ voice_list' = VGNext(vg, src).voices
    /\ UNCHANGED << t, stopping, voice_pool, pending_removal, sample, output,
                    admitted, requested, env, probe >>

SeqSpec == SeqInit /\ [][Pull]_vars

(***************************************************************************)
(* QuantSpec: quantizer(amplifier(gain, [s])) for one sample s of magnitude  *)
(* up to MaxSample (in 10^-4) and the gains 0.5 and 1                        *)
(***************************************************************************)

MaxSample == 25000

\* The gain 1.0, in tenths.
UnitGain == 2 * Gain

\* probe holds the gain of the amplifier stage.
QuantInit ==
    /\ src = ListSource(<< >>)
    /\ vg = voice_generator
    /\ pc = "new"
    /\ t = 0
    /\ stopping = FALSE
    /\ voice_pool = << >>
    /\ voice_time = 0
    /\ voice_list = << >>
    /\ pending_removal = << >>
    /\ output = 0
    /\ admitted = << >>
    /\ requested = << >>
    /\ env = ADSREnvelope(1, 10, VoiceSustain, 30)
    /\ \E g \in { Gain, UnitGain } : probe = [ gain |-> g ]
    /\ \E s \in (-MaxSample)..MaxSample : sample = s

\* next(output): the sample passes the amplifier and the quantizer.
Quantize ==
    /\ pc = "new"
    /\ pc' = "yielded"
    /\ output' = quantizer(amplifier(probe.gain, sample))
    /\ UNCHANGED << src, vg, t, stopping, voice_pool, voice_time, voice_list,
                    pending_removal, sample, admitted, requested, env, probe >>

QuantSpec == QuantInit /\ [][Quantize]_vars

(***************************************************************************)
(* VoiceSpec: one Voice(note, length), asked for samples until it has        *)
(* raised StopIteration and MaxAfter times more                              *)
(***************************************************************************)

Notes == { 36, 43 }

\* voice_pool holds the voice; probe the number of requests made, whether
\* the last one raised StopIteration, and the requests made after the first
\* that did.
VoiceInit ==
    /\ src = ListSource(<< >>)
    /\ vg = voice_generator
    /\ pc = "new"
    /\ t = 0
    /\ stopping = FALSE
    /\ \E note \in Notes, length \in 0..MaxLength :
          voice_pool = << Voice(1, note, length) >>
    /\ voice_time = 0
    /\ voice_list = << >>
    /\ pending_removal = << >>
    /\ sample = 0
    /\ output = 0
    /\ admitted = << >>
    /\ requested = << >>
    /\ env = ADSREnvelope(1, 10, VoiceSustain, 30)
    /\ probe = [ n |-> 0, stop |-> FALSE, after |-> 0 ]

\* next(voice)
VoiceRequest ==
    /\ probe.stop => probe.after < MaxAfter
    /\ \E r \in { VoiceNext(voice_pool[1]) } :
          /\ voice_pool' = << r.voice >>
          /\ sample' = IF r.stop THEN sample ELSE r.sample
          /\ probe' = [ n     |-> probe.n + 1,
                        stop  |-> r.stop,
                        after |-> IF probe.stop THEN probe.after + 1 ELSE 0 ]
    /\ UNCHANGED << src, vg, pc, t, stopping, voice_time, voice_list,
                    pending_removal, output, admitted, requested, env >>

VoiceSpec == VoiceInit /\ [][VoiceRequest]_vars

(***************************************************************************)
(* Properties                                                               *)
(***************************************************************************)

\* The elements of a sequence.
Range(s) == { s[i] : i \in 1..Len(s) }

\* The group fetched ahead and not yet admitted.
Pending == IF voice_time = Infinity \/ pc = "new" THEN << >> ELSE voice_list

\* Every voice the mixer holds: in the pool, fetched ahead, or just removed.
Voices == Range(voice_pool) \cup Range(Pending) \cup Range(pending_removal)

Ids(s) == { v.id : v \in Range(s) }

\* C3: after the removal step of a tick, every voice still in the pool was
\* asked for a sample in that tick's pass and returned one (its envelope did
\* not finish), and every voice that signalled exhaustion is out of the pool.
C3_NoStaleVoice ==
    pc \in {"yielded", "ended"} =>
        /\ \A v \in Range(voice_pool) :
              /\ v.id \in Range(requested)
              /\ v.t >= 1
              /\ ~(v.adsr.released /\ v.adsr.level < 0)
        /\ \A v \in Range(pending_removal) :
              /\ v.id \in Range(requested)
              /\ v.adsr.released /\ v.adsr.level < 0
              /\ v.id \notin Ids(voice_pool)

C3_Witness ==
    /\ pc = "yielded"
    /\ Len(pending_removal) > 0
    /\ Len(voice_pool) > 0

\* C4: the stream ends on the first tick after whose removal step the group
\* source is exhausted (stopping) and the pool is empty: a stream that has
\* yielded is not in that condition, a stream that has ended after fetching
\* a group is; it has not ended while a group is pending or a voice is in the
\* pool, and with an empty pool and a group pending it yields.
C4_EndsExactlyWhenStoppingAndEmpty ==
    /\ pc = "yielded" => ~(stopping /\ Len(voice_pool) = 0)
    /\ (pc = "ended" /\ Len(vg.out) > 0) =>
          /\ stopping
          /\ Len(voice_pool) = 0
          /\ voice_time = Infinity
    /\ stopping = (voice_time = Infinity)
    /\ stopping => src.pos = Len(src.items)

C4_Witness ==
    /\ pc = "yielded"
    /\ Len(voice_pool) = 0
    /\ voice_time # Infinity
    /\ ~stopping
    /\ t > 0

\* C6: the groups admitted in a tick are the next ones in the order in which
\* voice_generator yielded them, each with its own start time, and none
\* has a start time later than the clock of that tick.
C6_AdmittedInOrderNotEarly ==
    \A i \in 1..Len(admitted) :
        /\ admitted[i].no =
              (IF voice_time = Infinity THEN Len(vg.out) ELSE Len(vg.out) - 1)
              - (Len(admitted) - i)
        /\ admitted[i].time = vg.out[admitted[i].no].time
        /\ 441 * admitted[i].time <= t

C6_Witness ==
    /\ Len(admitted) >= 1
    /\ admitted[1].no >= 2
    /\ admitted[1].time > 0
    /\ t >= 441 * admitted[1].time

\* C5: for every finite list of events with lengths >= 0, a consumer that
\* keeps asking reaches the end of the stream, with every event consumed,
\* the pool empty and the voices removed last released and Finished.
C5_StreamEnds ==
    <>( /\ pc = "ended"
        /\ Len(voice_pool) = 0
        /\ src.pos = Len(src.items)
        /\ \A v \in Range(pending_removal) :
               v.adsr.released /\ v.adsr.level < 0 )

C5_Witness ==
    /\ pc = "ended"
    /\ stopping
    /\ vg.created >= 2
    /\ t > 441
    /\ \E v \in Range(pending_removal) : v.length >= 1

\* sum of the lengths of the first n events
RECURSIVE SumOfLengths(_, _)
SumOfLengths(events, n) ==
    IF n = 0 THEN 0 ELSE events[n].length + SumOfLengths(events, n - 1)

\* C7: voice_generator yields one group per pattern event, in event order
\* (group k carries the notes of event k), the start time of group k is the
\* sum of the lengths of the events before it, so start times never decrease;
\* the progression ["Cmaj7"] gives 6 groups starting at 0, 600, 900, 1200,
\* 1800, 2100, the lengths summing to 2400.
C7_StartTimesAreSumsOfEarlierLengths ==
    /\ Len(vg.out) = Len(src.out)
    /\ \A k \in 1..Len(vg.out) :
          /\ vg.out[k].notes = src.out[k].pitches
          /\ vg.out[k].time = SumOfLengths(src.out, k - 1)
          /\ k > 1 => vg.out[k - 1].time <= vg.out[k].time
    /\ pc = "ended" => Len(vg.out) = 6 * Len(src.items)
    /\ (pc = "ended" /\ src.items = << "Cmaj7" >>) =>
          /\ [ k \in 1..Len(vg.out) |-> vg.out[k].time ]
                = << 0, 600, 900, 1200, 1800, 2100 >>
          /\ SumOfLengths(src.out, Len(src.out)) = 2400

C7_Witness ==
    /\ pc = "ended"
    /\ src.items = << "Cmaj7" >>
    /\ Len(vg.out) = 6
    /\ vg.out[6].time = 2100

\* The pattern of section 4.4: the length and the notes of the slot-th
\* event of a chord.
SlotLength == << 600, 300, 300, 600, 300, 300 >>
SlotNotes(chord, slot) ==
    CASE slot \in {1, 3, 5} -> chord
      [] slot \in {2, 4}    -> << chord[1] >>
      [] slot = 6           -> << chord[1] + 7 >>

\* C8: the k-th event is slot ((k-1) mod 6) + 1 of chord number
\* ((k-1) div 6) + 1 of the progression: (600, chord), (300, [root]),
\* (300, chord), (600, [root]), (300, chord), (300, [root + 7]); when the
\* sequencer is exhausted it has yielded exactly 6n events for n chords.
C8_SixEventsPerChord ==
    /\ \A k \in 1..Len(src.out) :
          LET chord == CHORDS[src.items[((k - 1) \div 6) + 1]]
              slot  == ((k - 1) % 6) + 1
          IN  /\ (k - 1) \div 6 < Len(src.items)
              /\ src.out[k].length = SlotLength[slot]
              /\ src.out[k].pitches = SlotNotes(chord, slot)
    /\ pc = "ended" => Len(src.out) = 6 * Len(src.items)

C8_Witness ==
    /\ pc = "ended"
    /\ Len(src.items) = 2
    /\ src.items[1] # src.items[2]
    /\ Len(src.out) = 12

\* A step of EnvSpec that is a level request (trigger_release alone changes
\* the count of triggers).
IsRequest == env'.ntrigger = env.ntrigger /\ << env, probe >>' # << env, probe >>

\* C9: while the envelope (0.1, 1.0, 0.7, 3.0) is not released, the levels
\* returned during Attack never decrease and stay at or below 1.0; the step
\* that leaves Attack returns exactly 1.0 and Attack is never entered again;
\* afterwards every level is at most 1.0, at least 0.7 and not above the one
\* before, and it strictly decreases as long as it is farther from 0.7 than
\* the resolution of the arithmetic lets a decay step resolve.
C9_AttackRisesThenDecaysTowardsSustain ==
    [][ (IsRequest /\ ~env.released) =>
          /\ ~probe'.stop /\ probe'.value = env'.level
          /\ env.attacking =>
                /\ env'.level >= env.level
                /\ env'.level <= One
                /\ env'.attacking = (AttackLevel(env) <= One)
                /\ ~env'.attacking => env'.level = One
          /\ ~env.attacking =>
                /\ ~env'.attacking
                /\ env'.level <= One
                /\ env'.level >= env.sustain
                /\ env'.level <= env.level
                /\ env.level - env.sustain > env.decay \div 4 =>
                      env'.level < env.level
      ]_vars

C9_Witness ==
    /\ probe.at = Never
    /\ ~env.attacking
    /\ env.level >= env.sustain
    /\ env.level - env.sustain <= env.decay \div 4

\* C10: once release has been triggered, in Attack or in Decay/Sustain,
\* every level request applies the release update and nothing else, the
\* level strictly decreases, the request signals Finished exactly if the
\* updated level is below 0, and once a request has signalled Finished
\* every later one does; no request signals Finished before release.
C10_ReleaseFallsUntilFinished ==
    [][ IsRequest =>
          /\ env.released =>
                /\ env'.level = env.level
                      + Scaled(env.release, (One - InvRatio) - env.level)
                /\ env'.level < env.level
                /\ env'.attacking = env.attacking
                /\ env'.released
                /\ probe'.stop = (env'.level < 0)
                /\ probe.stop => probe'.stop
                /\ ~probe'.stop => probe'.value = env'.level
          /\ ~env.released => ~probe'.stop
      ]_vars

C10_Witness ==
    /\ probe.stop
    /\ probe.after >= 1
    /\ ~env.attacking
    /\ env.released

AtMost(r, l) ==
    r * 3125 + l \div 32 + (IF l % 32 > 0 THEN 1 ELSE 0) <= 1024 * l

\* q is 32767 * x / 100000 truncated toward zero (x in 10^-5).
IsTruncation(q, x) ==
    LET ax == IF x >= 0 THEN x ELSE -x
        aq == IF q >= 0 THEN q ELSE -q
        r  == aq - 32767 * (ax \div 100000)
        l  == ax % 100000
    IN  /\ (x >= 0 => q >= 0) /\ (x <= 0 => q <= 0)
        /\ r >= 0 /\ r <= 32767
        /\ AtMost(r, l)
        /\ ~AtMost(r + 1, l)

RECURSIVE VoicesOfGroups(_, _)
VoicesOfGroups(out, n) ==
    IF n = 0 THEN 0 ELSE Len(out[n].notes) + VoicesOfGroups(out, n - 1)

\* C14 as stated: after a tick, every voice that exists belongs to a group
\* whose start time the clock has reached.
C14_AsStated ==
    pc = "yielded" => (Len(Pending) > 0 => 441 * voice_time <= t)

\* C14, amended: voices are created one group ahead of their admission.
\* After every tick the groups created are those whose start time the clock
\* has reached, all admitted, and at most one more: the group fetched ahead
\* when the group before it was admitted (or, for the first group, before
\* the first tick), whose start time the clock has not passed and whose
\* voices have not been asked for a sample.  No event beyond that group has
\* been pulled and no voice beyond its voices exists.
C14_VoicesCreatedOneGroupAhead ==
    (pc \in {"yielded", "ended"} /\ Len(vg.out) > 0) =>
        LET n == Len(vg.out)
            a == IF voice_time = Infinity THEN n ELSE n - 1
        IN  /\ Len(src.out) = n
            /\ src.pos = n
            /\ vg.created = VoicesOfGroups(vg.out, n)
            /\ \A v \in Voices : v.id \in 1..vg.created
            /\ \A k \in 1..a : 441 * vg.out[k].time <= t
            /\ voice_time # Infinity =>
                  /\ 441 * voice_time >= t
                  /\ voice_time = vg.out[n].time
                  /\ Ids(voice_list) =
                        (vg.created - Len(vg.out[n].notes) + 1)..vg.created
                  /\ \A v \in Range(voice_list) : v.t = 0
            /\ Ids(voice_pool) \subseteq 1..VoicesOfGroups(vg.out, a)

C14_Witness ==
    /\ pc = "yielded"
    /\ Len(Pending) >= 1
    /\ Len(vg.out) >= 2
    /\ Len(admitted) >= 1
    /\ 441 * voice_time > t

\* C15: in every tick each voice that is in the pool after the admission
\* step is asked for exactly one sample: a voice that was in the pool before
\* the tick is in the pool or among the removed voices afterwards with its
\* elapsed count one higher, whether or not another voice signalled
\* exhaustion in the pass; a voice admitted in the tick has the count 1; no
\* voice is asked twice.  So the elapsed count of a pooled voice is the
\* number of ticks since its admission, that tick included.
C15_OneRequestPerPooledVoicePerTick ==
    [][ LET now == Range(voice_pool') \cup Range(pending_removal')
        IN  /\ \A u \in Range(voice_pool) :
                  \E v \in now : v.id = u.id /\ v.t = u.t + 1
            /\ \A v \in now : v.id \notin Ids(voice_pool) => v.t = 1
            /\ Ids(voice_pool') \cap Ids(pending_removal') = {}
            /\ Cardinality({ v.id : v \in now }) = Len(requested')
            /\ Len(voice_pool') + Len(pending_removal') = Len(requested')
            /\ Range(requested') = { v.id : v \in now }
      ]_vars

C15_Witness ==
    /\ pc = "yielded"
    /\ Len(pending_removal) > 0
    /\ \E i \in 1..Len(requested) : \E v \in Range(voice_pool) :
          /\ i > 1
          /\ v.id = requested[i]
          /\ requested[i - 1] \in Ids(pending_removal)

\* C16: the clock is 0 in the first tick and every later tick finds it
\* advanced by exactly one period of 1000/44100 ms (t is in 1/441 ms), the
\* terminating tick not advancing it again, so it strictly increases; after
\* the admission step of a tick the group still pending, if any, has a start
\* time the clock has not reached, and every group admitted in the tick has
\* a start time the clock has reached now and had not reached a tick before.
C16_ClockAdvancesOncePerSample ==
    [][ /\ pc = "new" => t' = 0
        /\ pc = "yielded" =>
              /\ 44100 * (t' - t) = 441 * 1000
              /\ t' > t
        /\ \A i \in 1..Len(admitted') :
              /\ Reached(t', admitted'[i].time)
              /\ pc = "yielded" => ~Reached(t, admitted'[i].time)
        /\ (pc' = "yielded" /\ voice_time' # Infinity) =>
              ~Reached(t', voice_time')
      ]_vars

C16_Witness ==
    /\ pc = "yielded"
    /\ Len(admitted) >= 1
    /\ admitted[1].time >= 1
    /\ t >= 441 * admitted[1].time
    /\ t - Period < 441 * admitted[1].time

\* C17: a request to a voice raises StopIteration exactly if its envelope
\* does on that request (the envelope is released and its updated level is
\* below 0), in which case the oscillator is not advanced; a request that
\* returns a sample advances both; once a request has raised StopIteration
\* every later one does.
C17_VoiceEndsWithItsEnvelope ==
    [][ LET v == voice_pool[1]
            w == voice_pool'[1]
        IN  /\ probe'.stop = (w.adsr.released /\ w.adsr.level < 0)
            /\ probe'.stop = EnvNext(VoiceRelease(v).adsr).stop
            /\ probe'.stop => w.oscillator = v.oscillator
            /\ ~probe'.stop => w.oscillator = OscNext(v.oscillator).osc
            /\ probe.stop => probe'.stop
            /\ w.t = v.t + 1
      ]_vars

C17_Witness ==
    /\ probe.stop
    /\ probe.after >= 1
    /\ voice_pool[1].length >= 1
    /\ voice_pool[1].t = probe.n

\* C20: after every sample request to a voice, whether it returned a sample
\* or raised StopIteration, the voice's released flag equals its envelope's,
\* both are set exactly if the elapsed count exceeds the planned duration,
\* and a flag that was set before the request is still set after it.
C20_ReleasedFlagsAgree ==
    [][ LET v == voice_pool[1]
            w == voice_pool'[1]
        IN  /\ w.released = w.adsr.released
            /\ w.released = (w.t > w.length)
            /\ v.released => w.released
            /\ v.adsr.released => w.adsr.released
      ]_vars

C20_Witness ==
    /\ probe.stop
    /\ probe.after >= 1
    /\ voice_pool[1].released
    /\ voice_pool[1].adsr.released
    /\ voice_pool[1].t > voice_pool[1].length + 1

\* C18: the group fetched ahead has one new voice for each pitch of its
\* event, in order, with that pitch and the event's length, and no two voices
\* have the same identity; in a tick every voice changes as a request to that
\* voice alone changes it: a voice that was in the pool becomes what one
\* request makes of its own previous state, a voice admitted in the tick
\* what one request makes of a new voice, whatever other voices
\* are in the pool.
C18_OneVoicePerPitchNoSharedState ==
    [][ /\ (voice_time' # Infinity /\ Len(src'.out) > 0) =>
              LET ev == src'.out[Len(src'.out)]
              IN  /\ Len(voice_list') = Len(ev.pitches)
                  /\ \A i \in 1..Len(voice_list') :
                        voice_list'[i] =
                            Voice(voice_list'[i].id, ev.pitches[i], ev.length)
        /\ Cardinality(Ids(voice_pool') \cup Ids(Pending'))
              = Len(voice_pool') + Len(Pending')
        /\ \A v \in Range(voice_pool') \cup Range(pending_removal') :
              /\ \A u \in Range(voice_pool) :
                    u.id = v.id => v = VoiceNext(u).voice
              /\ v.id \notin Ids(voice_pool) =>
                    v = VoiceNext(Voice(v.id, v.note, v.length)).voice
      ]_vars

C18_Witness ==
    /\ pc = "yielded"
    /\ Len(voice_pool) >= 3
    /\ \E u, v \in Range(voice_pool) :
          /\ u.t > v.t
          /\ u.adsr.level # v.adsr.level
          /\ u.note # v.note

\* The sample a voice returned on its last request: its envelope's level
\* times the oscillator's value at its phase.
LastSample(v) ==
    SampleOf(v.adsr.level, Sin(v.oscillator.phi) + Sin(2 * v.oscillator.phi))

RECURSIVE SumOfSamples(_)
SumOfSamples(pool) ==
    IF Len(pool) = 0 THEN 0 ELSE LastSample(pool[1]) + SumOfSamples(Tail(pool))

\* C19: the value yielded in a tick is the sum of the samples returned in
\* that tick by the voices that did not signal exhaustion (those left in the
\* pool after the removal step), 0 when there is none; the quantizer's
\* element is made of that value; the mix of the terminating tick is 0.
C19_MixIsSumOfReturnedSamples ==
    /\ pc = "yielded" =>
          /\ sample = SumOfSamples(voice_pool)
          /\ Len(voice_pool) = 0 => sample = 0
          /\ output = quantizer(amplifier(Gain, SumOfSamples(voice_pool)))
    /\ pc = "ended" => sample = 0

C19_Witness ==
    /\ pc = "yielded"
    /\ Len(voice_pool) >= 2
    /\ Len(pending_removal) >= 1
    /\ LastSample(voice_pool[1]) # 0
    /\ LastSample(voice_pool[2]) # 0
    /\ sample # LastSample(voice_pool[2])

====
